---- MODULE Spec2Model ----
(***************************************************************************)
(* AssetServer (packager/react-packager/src/AssetServer/index.js).         *)
(*                                                                         *)
(* One request (get or getAssetData) against a fixed file system:          *)
(* findRoot probes every project root with lstat concurrently and          *)
(* Promise.some(..., 1) settles on the first probe that fulfils; the       *)
(* located directory is listed, buildAssetMap groups the listing into      *)
(* records, and the request either reads one file (get) or stats every     *)
(* file of the record and hashes the modification times (getAssetData).    *)
(*                                                                         *)
(* Encoding.  A file name "icon@2x.png" is the record                      *)
(* [base |-> "icon", suffix |-> 4, ext |-> "png"]: the density suffix is   *)
(* counted in halves (so "@2.5x" is 5) and suffix 0 stands for a name      *)
(* without "@Nx".  Resolutions are counted in halves as well, 1x being 2.  *)
(* A directory path is a sequence of components, a file path the record    *)
(* [dir |-> directory path, file |-> file name].                           *)
(***************************************************************************)
EXTENDS Integers, Sequences, FiniteSets, TLC

\* Directory entries the file system holds per set of roots (split evenly
\* over the roots that are configured).
MaxFiles == 3

RootNames == <<"A", "B">>
RelDir == "img"
Bases == {"icon"}
Exts == {"png", "jpg"}
Suffixes == {0, 2, 4, 6}
ReqSuffixes == {0, 4, 5, 10}
DataSuffixes == {0, 4}
Mtimes == {1, 12, 21}
DirKinds == {"dir", "file", "enoent", "eacces"}

FileNames == [base : Bases, suffix : Suffixes, ext : Exts]
ReqNames == [base : Bases, suffix : ReqSuffixes, ext : Exts]
AssetPaths == [dir : {RelDir}, file : ReqNames]
DataPaths == {p \in AssetPaths : p.file.suffix \in DataSuffixes}

Range(s) == {s[i] : i \in DOMAIN s}
Min(S) == CHOOSE x \in S : \A y \in S : x <= y
IsInjective(s) == \A i, j \in DOMAIN s : s[i] = s[j] => i = j

\* What readdir can return for a directory of at most n entries.
Listings(n) ==
  {l \in UNION {[1..k -> FileNames] : k \in 0..n} : IsInjective(l)}

VARIABLES
  roots,      \* this._roots
  assetExts,  \* this._assetExts
  fsKind,     \* file system: what lstat finds at root/RelDir
  fsList,     \* file system: what readdir returns for root/RelDir
  pc,         \* where the request's promise chain stands
  op,         \* "get" or "getAssetData"
  assetPath,  \* the request's argument
  probe,      \* findRoot: the state of each root's lstat promise
  rejected,   \* findRoot: reasons of the rejected probes, in order of rejection
  dir,        \* the directory findRoot resolved with
  files,      \* the listing readDir resolved with
  record,     \* the record _getAssetRecord resolved with
  stats,      \* getAssetData: the state of each file's lstat promise
  data,       \* getAssetData: the descriptor being built
  content,    \* get: the file whose content the request resolved with
  error,      \* the error the request rejected with
  listed,     \* directories readDir was called on
  opened,     \* files readFile was called on
  statted     \* files of a record lstat was called on

vars == <<roots, assetExts, fsKind, fsList, pc, op, assetPath, probe, rejected,
          dir, files, record, stats, data, content, error, listed, opened,
          statted>>

----------------------------------------------------------------------------
\* Values

NoPath == [dir |-> <<>>, file |-> [base |-> "", suffix |-> 0, ext |-> ""]]
NoError == [message |-> "", errors |-> <<>>]
\* The value of map[key] for a key the map lacks; no record of a map is empty.
Undefined == [scales |-> <<>>, files |-> <<>>]
Pending == [settled |-> FALSE, mtime |-> 0]
Stat(m) == [settled |-> TRUE, mtime |-> m]
NoHash == [alg |-> "", of |-> <<>>]
NoData == [name |-> "", type |-> "", scales |-> <<>>, hash |-> NoHash]

Error(msg) == [message |-> msg, errors |-> <<>>]
\* What a file system call other than a root's probe rejects with.
IOError(syscall) == [message |-> "EIO", errors |-> <<syscall>>]
\* What Promise.some rejects with: the reasons of the rejected promises.
AggregateError(reasons) == [message |-> "AggregateError", errors |-> reasons]

----------------------------------------------------------------------------
\* path

join(d, file) == [dir |-> d, file |-> file]
basename(p) == p.file
dirname(p) == p.dir

----------------------------------------------------------------------------
\* lib/getAssetDataFromName: splits a file name into the asset's name, the
\* resolution its "@Nx" suffix states (1x when it has none), its extension and
\* the name all of its variants share (the file name without the suffix).

getAssetDataFromName(f) ==
  [resolution |-> IF f.suffix = 0 THEN 2 ELSE f.suffix,
   assetName  |-> [f EXCEPT !.suffix = 0],
   name       |-> f.base,
   type       |-> f.ext]

----------------------------------------------------------------------------
\* buildAssetMap

\* The loop with its comparison turned round.
InsertIndexGreater(scales, resolution) ==
  LET stops == {i \in 0..(Len(scales) - 1) : resolution > scales[i + 1]}
  IN  IF stops = {} THEN Len(scales) ELSE Min(stops)

\* The loop breaking on <= : an equal resolution goes before its equals.
InsertIndexBeforeEqual(scales, resolution) ==
  LET stops == {i \in 0..(Len(scales) - 1) : resolution <= scales[i + 1]}
  IN  IF stops = {} THEN Len(scales) ELSE Min(stops)

\* for (insertIndex = 0; insertIndex < length; insertIndex++)
\*   if (asset.resolution < record.scales[insertIndex]) break;
\* (0-based, as in the source)
InsertIndex(scales, resolution) ==
  LET stops == {i \in 0..(Len(scales) - 1) : resolution < scales[i + 1]}
  IN  IF stops = {} THEN Len(scales) ELSE Min(stops)

\* array.splice(index, 0, item)
Splice(s, index, item) ==
  SubSeq(s, 1, index) \o <<item>> \o SubSeq(s, index + 1, Len(s))

\* One iteration of assets.forEach.
InsertAsset(map, d, file) ==
  LET asset == getAssetDataFromName(file)
      key == asset.assetName
      rec == IF key \in DOMAIN map THEN map[key]
             ELSE [scales |-> <<>>, files |-> <<>>]
      insertIndex == InsertIndex(rec.scales, asset.resolution)
      new == [scales |-> Splice(rec.scales, insertIndex, asset.resolution),
              files  |-> Splice(rec.files, insertIndex, join(d, file))]
  IN  [k \in DOMAIN map \cup {key} |-> IF k = key THEN new ELSE map[k]]

\* The map after the first k iterations of assets.forEach.
RECURSIVE MapAfter(_, _, _)
MapAfter(d, fl, k) ==
  IF k = 0 THEN [x \in {} |-> Undefined]
  ELSE InsertAsset(MapAfter(d, fl, k - 1), d, fl[k])

buildAssetMap(d, fl) == MapAfter(d, fl, Len(fl))

----------------------------------------------------------------------------
\* _getAssetRecord

\* The lookup keyed by the requested file name, its suffix not removed.
LookupByFilename(map, filename) ==
  IF filename \in DOMAIN map THEN map[filename] ELSE Undefined

\* var assetData = getAssetDataFromName(filename);
\* var record = map[assetData.assetName];
LookupRecord(map, filename) ==
  LET assetData == getAssetDataFromName(filename)
  IN  IF assetData.assetName \in DOMAIN map THEN map[assetData.assetName]
      ELSE Undefined

\* The test left out: every lookup passes for a record.
RecordNeverMissing(rec) == FALSE

\* if (!record)
RecordMissing(rec) == rec = Undefined

----------------------------------------------------------------------------
\* get

\* The scan with > for >= : an exact match is passed over.
SelectIndexAbove(rec, resolution) ==
  LET hits == {i \in 0..(Len(rec.scales) - 1) : rec.scales[i + 1] > resolution}
  IN  IF hits = {} THEN Len(rec.files) - 1 ELSE Min(hits)

\* The index (0-based) of the file get reads.
SelectIndex(rec, resolution) ==
  LET hits == {i \in 0..(Len(rec.scales) - 1) : rec.scales[i + 1] >= resolution}
  IN  IF hits = {} THEN Len(rec.files) - 1 ELSE Min(hits)

----------------------------------------------------------------------------
\* getAssetData

\* Number.prototype.toString: the decimal digits of n >= 0.
RECURSIVE toString(_)
toString(n) == IF n < 10 THEN <<n>> ELSE toString(n \div 10) \o <<n % 10>>

\* A hash created anew for each stat: only the last one is in the digest.
HashInputLast(st, k) == IF k = 0 THEN <<>> ELSE toString(st[k].mtime)

\* stats.forEach(stat => hash.update(stat.mtime.getTime().toString())):
\* what the hash has been fed after the first k stats.
RECURSIVE HashInput(_, _)
HashInput(st, k) ==
  IF k = 0 THEN <<>> ELSE HashInput(st, k - 1) \o toString(st[k].mtime)

\* hash.digest('hex'), the digest taken as injective on what was fed.
digest(input) == [alg |-> "md5", of |-> input]

Fingerprint(st) == digest(HashInput(st, Len(st)))

----------------------------------------------------------------------------
\* findRoot

\* path.join(root, dir)
AbsPath(root, d) == <<root, d>>

\* The reason a root's probe rejects with, "" when it fulfils: lstat fails
\* with its error code, and the callback throws on what is no directory.
ProbeReason(kind) ==
  IF kind = "dir" THEN ""
  ELSE IF kind = "file" THEN "Looking for dirs"
  ELSE IF kind = "enoent" THEN "ENOENT" ELSE "EACCES"

----------------------------------------------------------------------------
\* The state after construction: the configuration and the file system.

Init ==
  /\ roots \in {SubSeq(RootNames, 1, n) : n \in 1..Len(RootNames)}
  /\ assetExts = <<"png", "jpg">>
  /\ fsKind \in [Range(roots) -> DirKinds]
  /\ fsList \in [Range(roots) -> Listings(MaxFiles \div Len(roots))]
  /\ \A r \in Range(roots) : fsKind[r] # "dir" => fsList[r] = <<>>
  /\ pc = "idle"
  /\ op = ""
  /\ assetPath = NoPath
  /\ probe = [i \in DOMAIN roots |-> "none"]
  /\ rejected = <<>>
  /\ dir = <<>>
  /\ files = <<>>
  /\ record = Undefined
  /\ stats = <<>>
  /\ data = NoData
  /\ content = NoPath
  /\ error = NoError
  /\ listed = {}
  /\ opened = {}
  /\ statted = {}

Config == <<roots, assetExts, fsKind, fsList>>

\* findRoot(this._roots, path.dirname(assetPath)): every root's lstat is issued.
CallFindRoot ==
  /\ probe' = [i \in DOMAIN roots |-> "pending"]
  /\ pc' = "findRoot"

\* AssetServer.prototype.get, up to the first suspension.
Get(p) ==
  /\ pc = "idle"
  /\ op' = "get"
  /\ assetPath' = p
  /\ CallFindRoot
  /\ UNCHANGED <<Config, rejected, dir, files, record, stats, data, content,
                 error, listed, opened, statted>>

\* AssetServer.prototype.getAssetData, up to the first suspension.
GetAssetData(p) ==
  /\ pc = "idle"
  /\ op' = "getAssetData"
  /\ assetPath' = p
  /\ data' = [NoData EXCEPT !.name = getAssetDataFromName(basename(p)).name,
                            !.type = "png"]
  /\ CallFindRoot
  /\ UNCHANGED <<Config, rejected, dir, files, record, stats, content, error,
                 listed, opened, statted>>

\* The lstat of root i completes and its callback runs.  While Promise.some
\* is pending, the first probe to fulfil resolves it, and readDir is called
\* on its path; a rejection is collected, and the last one, when no probe
\* has fulfilled, rejects it.  Once it is settled a probe changes nothing.
LstatRoot(i) ==
  /\ probe[i] = "pending"
  /\ LET absPath == AbsPath(roots[i], dirname(assetPath))
         reason == ProbeReason(fsKind[roots[i]])
     IN  IF reason = ""
         THEN /\ probe' = [probe EXCEPT ![i] = "fulfilled"]
              /\ IF pc = "findRoot"
                 THEN /\ dir' = absPath
                      /\ listed' = listed \cup {absPath}
                      /\ pc' = "readDir"
                 ELSE UNCHANGED <<dir, listed, pc>>
              /\ UNCHANGED <<rejected, error>>
         ELSE /\ probe' = [probe EXCEPT ![i] = "rejected"]
              /\ IF pc = "findRoot"
                 THEN /\ rejected' = Append(rejected, reason)
                      /\ IF Len(rejected') = Len(roots)
                         THEN /\ pc' = "failed"
                              /\ error' = AggregateError(rejected')
                         ELSE UNCHANGED <<pc, error>>
                 ELSE UNCHANGED <<rejected, pc, error>>
              /\ UNCHANGED <<dir, listed>>
  /\ UNCHANGED <<Config, op, assetPath, files, record, stats, data, content,
                 opened, statted>>

\* readDir(dir) fulfils and the spread callback of _getAssetRecord runs.
ReadDir ==
  /\ pc = "readDir"
  /\ files' = fsList[dir[1]]
  /\ LET filename == basename(assetPath)
         map == buildAssetMap(dir, files')
         rec == LookupRecord(map, filename)
     IN  IF RecordMissing(rec)
         THEN /\ pc' = "failed"
              /\ error' = Error("Asset not found")
              /\ UNCHANGED record
         ELSE /\ pc' = "record"
              /\ record' = rec
              /\ UNCHANGED error
  /\ UNCHANGED <<Config, op, assetPath, probe, rejected, dir, stats, data,
                 content, listed, opened, statted>>

\* readDir(dir) rejects.
ReadDirError ==
  /\ pc = "readDir"
  /\ pc' = "failed"
  /\ error' = IOError("scandir")
  /\ UNCHANGED <<Config, op, assetPath, probe, rejected, dir, files, record,
                 stats, data, content, listed, opened, statted>>

\* The callback of get: the selection, and readFile on the selected file.
GetThen ==
  /\ pc = "record"
  /\ op = "get"
  /\ IF record = Undefined
     THEN /\ pc' = "failed"
          /\ error' = Error("TypeError")
          /\ UNCHANGED opened
     ELSE LET assetData == getAssetDataFromName(basename(assetPath))
              i == SelectIndex(record, assetData.resolution)
          IN  /\ opened' = opened \cup {record.files[i + 1]}
              /\ pc' = "readFile"
              /\ UNCHANGED error
  /\ UNCHANGED <<Config, op, assetPath, probe, rejected, dir, files, record,
                 stats, data, content, listed, statted>>

\* readFile fulfils: the request resolves with the file's content.
ReadFile ==
  /\ pc = "readFile"
  /\ \E f \in opened :
       /\ content' = f
       /\ pc' = "done"
  /\ UNCHANGED <<Config, op, assetPath, probe, rejected, dir, files, record,
                 stats, data, error, listed, opened, statted>>

\* readFile rejects.
ReadFileError ==
  /\ pc = "readFile"
  /\ pc' = "failed"
  /\ error' = IOError("open")
  /\ UNCHANGED <<Config, op, assetPath, probe, rejected, dir, files, record,
                 stats, data, content, listed, opened, statted>>

\* The first callback of getAssetData: lstat on every file of the record.
GetAssetDataThen ==
  /\ pc = "record"
  /\ op = "getAssetData"
  /\ IF record = Undefined
     THEN /\ pc' = "failed"
          /\ error' = Error("TypeError")
          /\ UNCHANGED <<data, stats, statted>>
     ELSE /\ data' = [data EXCEPT !.scales = record.scales]
          /\ stats' = [i \in DOMAIN record.files |-> Pending]
          /\ statted' = statted \cup Range(record.files)
          /\ pc' = "lstat"
          /\ UNCHANGED error
  /\ UNCHANGED <<Config, op, assetPath, probe, rejected, dir, files, record,
                 content, listed, opened>>

\* The lstat of the record's i-th file fulfils, in any order among the files.
LstatFile(i, m) ==
  /\ pc = "lstat"
  /\ ~stats[i].settled
  /\ stats' = [stats EXCEPT ![i] = Stat(m)]
  /\ UNCHANGED <<Config, pc, op, assetPath, probe, rejected, dir, files,
                 record, data, content, error, listed, opened, statted>>

\* The lstat of one of the record's files rejects, and so does Promise.all.
LstatFileError(i) ==
  /\ pc = "lstat"
  /\ ~stats[i].settled
  /\ pc' = "failed"
  /\ error' = IOError("lstat")
  /\ UNCHANGED <<Config, op, assetPath, probe, rejected, dir, files, record,
                 stats, data, content, listed, opened, statted>>

\* The second callback of getAssetData: every lstat has fulfilled.
HashThen ==
  /\ pc = "lstat"
  /\ \A i \in DOMAIN stats : stats[i].settled
  /\ data' = [data EXCEPT !.hash = Fingerprint(stats)]
  /\ pc' = "done"
  /\ UNCHANGED <<Config, op, assetPath, probe, rejected, dir, files, record,
                 stats, content, error, listed, opened, statted>>

Next ==
  \/ \E p \in AssetPaths : Get(p)
  \/ \E p \in DataPaths : GetAssetData(p)
  \/ \E i \in DOMAIN roots : LstatRoot(i)
  \/ ReadDir
  \/ ReadDirError
  \/ GetThen
  \/ ReadFile
  \/ ReadFileError
  \/ GetAssetDataThen
  \/ \E i \in DOMAIN stats, m \in Mtimes : LstatFile(i, m)
  \/ \E i \in DOMAIN stats : LstatFileError(i)
  \/ HashThen

Spec == Init /\ [][Next]_vars

----------------------------------------------------------------------------
\* Properties

Resolution(f) == getAssetDataFromName(f).resolution
Requested == Resolution(basename(assetPath))
RequestedName == getAssetDataFromName(basename(assetPath)).assetName

\* findRoot has resolved / the listing of the located directory has arrived.
Located == dir # <<>>
Listed == Located /\ pc # "readDir" /\ error # IOError("scandir")

\* The directory under root r holds a variant of the requested asset.
HoldsAsset(r) ==
  \E i \in DOMAIN fsList[r] :
    getAssetDataFromName(fsList[r][i]).assetName = RequestedName

Pos(s, x) == CHOOSE i \in DOMAIN s : s[i] = x

\* C1: when several roots contain the directory, findRoot resolves with the
\* path under the lowest-indexed of them, whatever the order in which the
\* lstat probes complete.
RootPrecedence ==
  Located =>
    LET holders == {i \in DOMAIN roots : fsKind[roots[i]] = "dir"}
    IN  dir = <<roots[Min(holders)], dirname(assetPath)>>

\* C2: get reads files[i] for the smallest i with scales[i] >= the requested
\* resolution, and the last file when no scale reaches it; a scale below the
\* request is read only when no scale reaches it, and the selection itself
\* never fails the request.
SelectionPolicy ==
  /\ opened # {} =>
       LET reach == {i \in DOMAIN record.scales : record.scales[i] >= Requested}
           i == IF reach # {} THEN Min(reach) ELSE Len(record.files)
       IN  /\ opened = {record.files[i]}
           /\ Resolution(record.files[i].file) < Requested =>
                \A g \in Range(files) :
                  getAssetDataFromName(g).assetName = RequestedName =>
                    Resolution(g) < Requested
  /\ op = "get" /\ pc \in {"readFile", "done", "failed"} /\ record # Undefined =>
       /\ opened # {}
       /\ pc = "failed" => error = IOError("open")
  /\ pc = "done" /\ op = "get" => content \in opened

\* C2 witness: scales [1, 2, 3], 2.5x requested, the 3x file served.
SelectionRoundsUp ==
  /\ pc = "done"
  /\ op = "get"
  /\ record.scales = <<2, 4, 6>>
  /\ Requested = 5
  /\ content = record.files[3]
  /\ Resolution(content.file) = 6

\* Once the listing has been handled, the records of the map after each of
\* its first k insertions satisfy Ordered, and pair each scale with its file.
RecordsKeep(Ordered(_, _)) ==
  pc \in {"record", "failed"} =>
  \A k \in 0..Len(files) :
    LET map == MapAfter(dir, files, k)
    IN  \A key \in DOMAIN map :
          LET rec == map[key]
          IN  /\ Len(rec.scales) = Len(rec.files)
              /\ Len(rec.scales) > 0
              /\ \A i, j \in DOMAIN rec.scales :
                   i < j => Ordered(rec.scales[i], rec.scales[j])
              /\ \A i \in DOMAIN rec.files :
                   /\ rec.files[i].dir = dir
                   /\ rec.files[i].file \in Range(SubSeq(files, 1, k))
                   /\ Resolution(rec.files[i].file) = rec.scales[i]
                   /\ getAssetDataFromName(rec.files[i].file).assetName = key

Less(a, b) == a < b
NotGreater(a, b) == a <= b

\* C3 (as stated): after every insertion step every record has scales and
\* files of equal length, scales strictly ascending, and files[i] the
\* directory-qualified path of the file whose resolution is scales[i].
OrderingStrict == RecordsKeep(Less)

\* C3 (amended): the same with scales in ascending order that need not be
\* strict: two files of one name may state the same resolution.
OrderingInvariant ==
  /\ RecordsKeep(NotGreater)
  /\ record # Undefined =>
       record = buildAssetMap(dir, files)[RequestedName]

\* C3 witness: resolutions listed as [3, 1, 2] give scales [1, 2, 3].
OrderingPermuted ==
  /\ Len(files) = 3
  /\ [i \in 1..3 |-> Resolution(files[i])] = <<6, 2, 4>>
  /\ record.scales = <<2, 4, 6>>
  /\ record.files = <<join(dir, files[2]), join(dir, files[3]),
                      join(dir, files[1])>>

\* C4: once a probe has failed for a reason other than non-existence,
\* findRoot fails and that error is propagated; findRoot also fails when no
\* root holds a directory at the path.
ProbeErrorPropagates ==
  /\ (pc \notin {"idle", "findRoot"}
        /\ \E i \in DOMAIN roots :
             probe[i] = "rejected" /\ fsKind[roots[i]] = "eacces")
     => /\ ~Located
        /\ pc = "failed"
        /\ "EACCES" \in Range(error.errors)
  /\ (pc \notin {"idle", "findRoot"}
        /\ \A i \in DOMAIN roots : fsKind[roots[i]] # "dir")
     => ~Located /\ pc = "failed"

\* C5: a request whose directory is located and listed but holds no variant
\* of the requested asset fails with 'Asset not found'; the failure of
\* findRoot is another error; in neither case is a file read or statted.
NotFoundPropagation ==
  /\ (Listed /\ ~HoldsAsset(dir[1]))
     => /\ pc = "failed"
        /\ error = Error("Asset not found")
        /\ opened = {} /\ statted = {}
  /\ (pc = "failed" /\ ~Located)
     => /\ error = AggregateError(rejected)
        /\ error # Error("Asset not found")
        /\ listed = {} /\ opened = {} /\ statted = {}

\* C5 witness: the directory exists and lists another asset's file only.
AssetNotFoundReached ==
  /\ pc = "failed"
  /\ error = Error("Asset not found")
  /\ files # <<>>
  /\ files = fsList[dir[1]]

\* The modification time the request saw for a file of its record.
MtimeOf(f) == stats[Pos(record.files, f)].mtime

\* The listings that hold the same file names as l, in every order.
Reorderings(l) ==
  {q \in [DOMAIN l -> Range(l)] : Range(q) = Range(l)}

\* C6: with the files and their modification times fixed, getAssetData
\* yields the same hash and the same scales for every order of the
\* directory listing and every order of completion of the lstat calls.
FingerprintDeterminism ==
  (pc = "done" /\ op = "getAssetData") =>
    \A q \in Reorderings(files) :
      LET rec == buildAssetMap(dir, q)[RequestedName]
          st == [i \in DOMAIN rec.files |-> Stat(MtimeOf(rec.files[i]))]
      IN  /\ rec.scales = data.scales
          /\ Fingerprint(st) = data.hash

\* The stats of a record that differs from the request's in one variant:
\* one modification time changed, one variant removed, one variant added.
OneTouched ==
  {[stats EXCEPT ![c.i] = Stat(c.m)] :
     c \in {c \in [i : DOMAIN stats, m : Mtimes] : c.m # stats[c.i].mtime}}
OneRemoved ==
  {SubSeq(stats, 1, i - 1) \o SubSeq(stats, i + 1, Len(stats)) :
     i \in DOMAIN stats}
OneAdded ==
  {Splice(stats, i, Stat(m)) : i \in 0..Len(stats), m \in Mtimes}
\* The stats of any other record of as many variants.
Retimed ==
  {[i \in DOMAIN stats |-> Stat(t[i])] : t \in [DOMAIN stats -> Mtimes]}

\* C7 (as stated): the fingerprint changes if and only if a modification
\* time changes or the set of variants changes.
FingerprintSensitivity ==
  (pc = "done" /\ op = "getAssetData") =>
    \A st \in OneTouched \cup OneRemoved \cup OneAdded \cup Retimed :
      (st # stats) <=> (Fingerprint(st) # data.hash)

\* C7 (amended): the fingerprint changes when the modification time of
\* exactly one variant changes, or exactly one variant is added or removed,
\* the others unchanged; it is the same when the modification times in
\* record order are the same.
FingerprintSingleChange ==
  (pc = "done" /\ op = "getAssetData") =>
    /\ \A st \in OneTouched \cup OneRemoved \cup OneAdded :
         Fingerprint(st) # data.hash
    /\ \A st \in Retimed : st = stats => Fingerprint(st) = data.hash

\* C7 witness: a fingerprint over two variants with times of unequal length.
FingerprintOfTwo ==
  /\ pc = "done"
  /\ op = "getAssetData"
  /\ Len(stats) = 2
  /\ stats[1].mtime = 12
  /\ stats[2].mtime = 1
  /\ data.hash = digest(<<1, 2, 1>>)

\* C8: the descriptor of getAssetData has the name of the parsed reference,
\* the asset's own extension as type, the record's scales, and the
\* fingerprint over the record's files as hash.
MetadataResult ==
  (pc = "done" /\ op = "getAssetData") =>
    LET ref == getAssetDataFromName(basename(assetPath))
    IN  /\ ref.type \in Range(assetExts)
        /\ data.name = ref.name
        /\ data.type = ref.type
        /\ data.scales = record.scales
        /\ data.hash = Fingerprint(stats)

\* Files of equal resolution stand in the record in the order of the listing.
TiesInListingOrder ==
  record # Undefined =>
    \A i, j \in DOMAIN record.files :
      (i < j /\ record.scales[i] = record.scales[j])
        => Pos(files, record.files[i].file) < Pos(files, record.files[j].file)

\* The variants of the requested asset that state the resolution of f.
EqualScale(f) ==
  {g \in Range(record.files) : Resolution(g.file) = Resolution(f.file)}

\* C9 (as stated): files of one name and one resolution stand in the record
\* in listing order, so get reads the first-seen among files of equal scale.
TieFirstSeen ==
  /\ TiesInListingOrder
  /\ \A f \in opened : \A g \in EqualScale(f) :
       Pos(files, f.file) <= Pos(files, g.file)

\* C9 (amended): they stand in listing order; get reads the first-seen of
\* the files of the selected scale when a scale reaches the request, and the
\* last-seen of the files of the highest scale when none does.
TieBreaking ==
  /\ TiesInListingOrder
  /\ \A f \in opened : \A g \in EqualScale(f) :
       IF Resolution(f.file) >= Requested
       THEN Pos(files, f.file) <= Pos(files, g.file)
       ELSE Pos(files, f.file) >= Pos(files, g.file)

\* C9 witness: two files of 1x, the one listed first is read.
TieServed ==
  /\ pc = "done"
  /\ op = "get"
  /\ record.scales = <<2, 2>>
  /\ files[1].suffix = 2
  /\ content = join(dir, files[1])

\* C10: a request lists one directory, the one findRoot resolved with, and
\* all it reads lies there; whether it fails with 'Asset not found' is
\* decided by that directory alone, whatever the other roots hold.
NoFallbackAcrossRoots ==
  /\ listed = IF Located THEN {dir} ELSE {}
  /\ \A f \in opened \cup statted : f.dir = dir
  /\ Listed => files = fsList[dir[1]]
  /\ (Listed /\ error.message # "EIO") =>
       /\ pc = "failed" <=> ~HoldsAsset(dir[1])
       /\ pc = "failed" => error = Error("Asset not found")

\* C10 witness: the request failed although another root holds the asset.
FailedBesideAsset ==
  /\ pc = "failed"
  /\ error = Error("Asset not found")
  /\ \E r \in Range(roots) :
       r # dir[1] /\ fsKind[r] = "dir" /\ HoldsAsset(r)

====
